---- MODULE Spec2Model ----
(***************************************************************************)
(* The fraud-detection notebook (src/Fraud Lens/FraudLens.ipynb) as a      *)
(* state machine: one action per code cell, run top to bottom; a cell that *)
(* raises stops the run.  The kernel's variables are the state.            *)
(*                                                                         *)
(* Numbers are exact rationals <<num, den>> (den > 0, lowest terms).  A    *)
(* principal-component score is not rational in general; it is kept as the *)
(* tuple <<"pca", k, centred point, covariance>> that determines it.       *)
(***************************************************************************)
EXTENDS Integers, Sequences, FiniteSets, TLC

\* ----------------------------------------------------------------- bounds
\* rows of a free-form input table
MaxSmall == 2
\* rows of class 0 / class 1 of a pooled input table
MaxN0 == 10
MaxN1 == 6
\* duplicated rows appended to a pooled input table
MaxDup == 1
\* distinct streams the seeded generator may stand for
MaxSeed == 1
\* resolution of a uniform draw in [0, 1): multiples of 1/UniformSteps
UniformSteps == 4
\* positives / negatives of a test set handed straight to the Evaluator
MaxPos == 3
MaxNeg == 7

\* ------------------------------------------------------ program constants
\* SMOTE(k_neighbors=1)
K_NEIGHBORS_ONE == 2 - 1

\* SMOTE(random_state=42): k_neighbors is left at the library default
K_NEIGHBORS == 5
\* train_test_split(..., test_size=0.3, ...), in tenths
TEST_SIZE_TENTHS == 3
\* PCA(n_components = 2)
N_COMPONENTS == 2
\* KNeighborsClassifier(n_neighbors=7)
N_NEIGHBORS_KNN == 7
\* cross_val_score(..., cv=5)
CV_FOLDS == 5

\* ------------------------------------------------------------- rationals
Abs(n) == IF n < 0 THEN -n ELSE n

RECURSIVE GCD(_, _)
GCD(a, b) == IF b = 0 THEN a ELSE GCD(b, a % b)

Rat(n, d) ==
  LET g == GCD(Abs(n), Abs(d))
      s == IF d < 0 THEN -1 ELSE 1
  IN  <<(s * n) \div g, (s * d) \div g>>

Int2Rat(n) == <<n, 1>>
Zero == <<0, 1>>
\* the two numerators over the least common denominator
Common(p, q) ==
  LET g == GCD(p[2], q[2])
  IN  <<p[1] * (q[2] \div g), q[1] * (p[2] \div g), (p[2] \div g) * q[2]>>

RAdd(p, q) == Rat(Common(p, q)[1] + Common(p, q)[2], Common(p, q)[3])
RSub(p, q) == Rat(Common(p, q)[1] - Common(p, q)[2], Common(p, q)[3])
RMul(p, q) == Rat(p[1] * q[1], p[2] * q[2])
RDiv(p, q) == Rat(p[1] * q[2], p[2] * q[1])
RLess(p, q) == Common(p, q)[1] < Common(p, q)[2]
RLeq(p, q) == Common(p, q)[1] <= Common(p, q)[2]

RECURSIVE RSum(_)
RSum(s) == IF s = <<>> THEN Zero ELSE RAdd(Head(s), RSum(Tail(s)))

\* round(x, 2) of a rational in [0, 1], as hundredths; a tie goes to the even
\* hundredth, as Python rounds a tie that is exact in binary
Round2(p) ==
  LET n == 100 * p[1]
      q == n \div p[2]
      r == n % p[2]
  IN  IF 2 * r < p[2] THEN q
      ELSE IF 2 * r > p[2] THEN q + 1
      ELSE IF q % 2 = 0 THEN q ELSE q + 1

\* ------------------------------------------------------------- sequences
RECURSIVE Insert(_, _)
Insert(v, s) ==
  IF s = <<>> THEN <<v>>
  ELSE IF RLeq(v, Head(s)) THEN <<v>> \o s
  ELSE <<Head(s)>> \o Insert(v, Tail(s))

RECURSIVE SortRat(_)
SortRat(s) == IF s = <<>> THEN <<>> ELSE Insert(Head(s), SortRat(Tail(s)))

Range(s) == {s[i] : i \in 1..Len(s)}

\* ------------------------------------------------------------ the table
\* A row of a frame: its index label, the two raw columns, the anonymized
\* components V1..V28 (kept as one value), and the label.
Row(i, t, a, v, c) == [idx |-> i, Time |-> t, Amount |-> a, V |-> v, Class |-> c]

\* the columns of a row that drop_duplicates / duplicated compare (all of them;
\* the index label is not a column)
RowValues(r) == [c \in (DOMAIN r) \ {"idx"} |-> r[c]]

\* the input file's k-th row of class c: distinct feature vectors within a class
PoolRow(c, k) ==
  <<3 * k + c,
    (k * k + 2 * c) % 7,
    IF c = 0 THEN (IF k % 4 = 0 THEN 1 ELSE 0) ELSE (IF k % 3 = 0 THEN 0 ELSE 1),
    c>>

PoolTable(n0, n1, d) ==
  LET base == [i \in 1..(n0 + n1) |->
                 IF i <= n0 THEN PoolRow(0, i) ELSE PoolRow(1, i - n0)]
      dup  == IF d <= n0 + n1 THEN d ELSE n0 + n1
  IN  base \o [i \in 1..dup |-> base[i]]

SmallRows == {<<t, a, 0, c>> : t \in 0..1, a \in 0..1, c \in 0..1}

SmallTables == UNION {[1..n -> SmallRows] : n \in 0..MaxSmall}

PoolTables ==
  {PoolTable(n0, n1, d) : n0 \in 0..MaxN0, n1 \in 0..MaxN1, d \in 0..MaxDup}

\* the contents a creditcard.csv may have
InputTables == SmallTables \cup {t \in PoolTables : Len(t) > MaxSmall}

\* the 31 columns of creditcard.csv; V stands for V1..V28
Standard == {"Time", "Amount", "V", "Class"}

\* the headers a creditcard.csv may have: the 31 columns, a further numeric
\* column, or a column short
Layouts ==
  {Standard, Standard \cup {"Extra"}, Standard \ {"Class"}, Standard \ {"Amount"}}

\* pd.read_csv(usecols=...): only the 31 columns are read
read_csv_usecols(table, header) ==
  [i \in 1..Len(table) |->
     [c \in (header \cap Standard) \cup {"idx"} |->
        CASE c = "idx"    -> i - 1
          [] c = "Time"   -> Int2Rat(table[i][1])
          [] c = "Amount" -> Int2Rat(table[i][2])
          [] c = "V"      -> Int2Rat(table[i][3])
          [] c = "Class"  -> table[i][4]]]

\* pd.read_csv: the columns the header names, whatever they are, in a frame
\* with a fresh RangeIndex 0..n-1
read_csv(table, header) ==
  [i \in 1..Len(table) |->
     [c \in header \cup {"idx"} |->
        CASE c = "idx"    -> i - 1
          [] c = "Time"   -> Int2Rat(table[i][1])
          [] c = "Amount" -> Int2Rat(table[i][2])
          [] c = "V"      -> Int2Rat(table[i][3])
          [] c = "Class"  -> table[i][4]
          [] c = "Extra"  -> Int2Rat(i % 2)]]

\* DataFrame.duplicated(): a row is a duplicate when an earlier row of the
\* frame holds the same values
duplicated(df, i) == \E j \in 1..(i - 1) : RowValues(df[j]) = RowValues(df[i])

RECURSIVE KeepFrom(_, _, _)
KeepFrom(df, mask, i) ==
  IF i > Len(df) THEN <<>>
  ELSE (IF mask[i] THEN <<df[i]>> ELSE <<>>) \o KeepFrom(df, mask, i + 1)

\* df[mask]: the rows selected by a boolean mask, index labels kept
Mask(df, mask) == KeepFrom(df, mask, 1)

\* drop_duplicates() without inplace=True: the frame is left as it was
drop_duplicates_not_inplace(df) == df

\* a mask that starts one row late: the first row goes as well
drop_duplicates_from_second(df) ==
  Mask(df, [i \in 1..Len(df) |-> i > 1 /\ ~duplicated(df, i)])

\* DataFrame.drop_duplicates(inplace=True): keep='first' over all columns
drop_duplicates(df) == Mask(df, [i \in 1..Len(df) |-> ~duplicated(df, i)])

\* df[df.Class == c]
ClassPart(df, c) == Mask(df, [i \in 1..Len(df) |-> df[i].Class = c])

\* df[df.Class == c].duplicated().sum()
DuplicatedSum(df, c) ==
  LET part == ClassPart(df, c)
  IN  Cardinality({i \in 1..Len(part) : duplicated(part, i)})

\* df[["Time", "Amount"]]: a copy of the two columns
TimeAmount(df) == [i \in 1..Len(df) |-> <<df[i].Time, df[i].Amount>>]

\* an assignment that spills into the next column
SetTimeAmountAndV(df, values) ==
  [i \in 1..Len(df) |->
     [df[i] EXCEPT !.Time = values[i][1], !.Amount = values[i][2],
                   !.V = values[i][2]]]

\* df[["Time", "Amount"]] = values
SetTimeAmount(df, values) ==
  [i \in 1..Len(df) |->
     [df[i] EXCEPT !.Time = values[i][1], !.Amount = values[i][2]]]

\* ----------------------------------------------------------------- PCA
Column(cols, k) == [i \in 1..Len(cols) |-> cols[i][k]]

Mean(col) == RDiv(RSum(col), Int2Rat(Len(col)))

\* PCA.fit raises unless n_components <= min(n_samples, n_features)
PcaFitFails(cols) == Len(cols) < N_COMPONENTS

\* PCA(n_components=2).fit(columns): the column means and the covariance
\* <<var(Time), cov(Time, Amount), var(Amount)>> whose eigenvectors are the
\* principal axes
PcaFit(cols) ==
  LET n  == Len(cols)
      mt == Mean(Column(cols, 1))
      ma == Mean(Column(cols, 2))
      dt == [i \in 1..n |-> RSub(cols[i][1], mt)]
      da == [i \in 1..n |-> RSub(cols[i][2], ma)]
      d  == Int2Rat(n - 1)
  IN  [mean_ |-> <<mt, ma>>,
       cov   |-> <<RDiv(RSum([i \in 1..n |-> RMul(dt[i], dt[i])]), d),
                   RDiv(RSum([i \in 1..n |-> RMul(dt[i], da[i])]), d),
                   RDiv(RSum([i \in 1..n |-> RMul(da[i], da[i])]), d)>>]

\* the k-th principal-component score of a centred point: 0 for the centre
\* itself, otherwise the projection on the k-th unit eigenvector of cov
Score(k, centred, cov) ==
  IF centred = <<Zero, Zero>> THEN Zero ELSE <<"pca", k, centred, cov>>

\* pca.transform(columns): centre on the fitted means, project on the axes
PcaTransform(fitted_pca, cols) ==
  [i \in 1..Len(cols) |->
     LET centred == <<RSub(cols[i][1], fitted_pca.mean_[1]),
                      RSub(cols[i][2], fitted_pca.mean_[2])>>
     IN  <<Score(1, centred, fitted_pca.cov), Score(2, centred, fitted_pca.cov)>>]

\* -------------------------------------------------------- RobustScaler
\* np.percentile (linear interpolation) of a column, q = qn/qd
Percentile(col, qn, qd) ==
  LET s  == SortRat(col)
      h  == (Len(s) - 1) * qn
      lo == h \div qd
      r  == h % qd
  IN  IF r = 0 THEN s[lo + 1]
      ELSE RAdd(s[lo + 1], RMul(Rat(r, qd), RSub(s[lo + 2], s[lo + 1])))

\* RobustScaler().fit(columns): per column the median, and the interquartile
\* range with a zero range replaced by 1
RobustFit(cols) ==
  LET center(k) == Percentile(Column(cols, k), 1, 2)
      iqr(k)    == RSub(Percentile(Column(cols, k), 3, 4),
                        Percentile(Column(cols, k), 1, 4))
      scale(k)  == IF iqr(k) = Zero THEN Int2Rat(1) ELSE iqr(k)
  IN  [center_ |-> <<center(1), center(2)>>, scale_ |-> <<scale(1), scale(2)>>]

\* (x - center) / scale of one value: exact on a rational, kept as a term on
\* a principal-component score
ScaleValue(x, center, scale) ==
  IF Len(x) = 2 THEN RDiv(RSub(x, center), scale)
  ELSE <<"scaled", x, center, scale>>

\* transformer.transform(columns)
RobustTransform(fitted_scaler, cols) ==
  [i \in 1..Len(cols) |->
     <<ScaleValue(cols[i][1], fitted_scaler.center_[1], fitted_scaler.scale_[1]),
       ScaleValue(cols[i][2], fitted_scaler.center_[2], fitted_scaler.scale_[2])>>]

\* ------------------------------------------------- the seeded generator
\* np.random.RandomState(42): the stream a fresh generator seeded with 42
\* yields is fixed but not computed here; stream selects which one it is.
RngModulus == 65537

RandomState(stream) == (42 + 1000 * stream) % RngModulus

RngNext(s) == (75 * s + 74) % RngModulus

\* the n generator states that follow s
RECURSIVE RngStates(_, _)
RngStates(s, n) ==
  IF n = 0 THEN <<>> ELSE <<RngNext(s)>> \o RngStates(RngNext(s), n - 1)

\* random_state.randint(low=0, high=high, size=n) on the states st
Randint(st, high) == [i \in 1..Len(st) |-> st[i] % high]

\* random_state.uniform(size=n) on the states st: values in [0, 1)
Uniform(st) == [i \in 1..Len(st) |-> Rat(st[i] % UniformSteps, UniformSteps)]

RECURSIVE Shuffle(_, _, _)
\* RandomState.shuffle: for i = n-1 down to 1, swap x[i] with x[j], j drawn
\* from 0..i (positions are 0-based in the code, 1-based here)
Shuffle(x, i, s) ==
  IF i < 1 THEN x
  ELSE LET s1 == RngNext(s)
           j  == s1 % (i + 1)
       IN  Shuffle([x EXCEPT ![i + 1] = x[j + 1], ![j + 1] = x[i + 1]], i - 1, s1)

\* rng.permutation(n): a shuffled arange(n)
Permutation(n, s) == Shuffle([i \in 1..n |-> i - 1], n - 1, s)

\* --------------------------------------------------------------- SMOTE
\* X = df.drop('Class', axis=1): the feature columns, index labels kept
Features(r) == [c \in (DOMAIN r) \ {"Class"} |-> r[c]]

DropClass(df) == [i \in 1..Len(df) |-> Features(df[i])]

\* y = df['Class']
Labels(df) == [i \in 1..Len(df) |-> df[i].Class]

\* the number of rows of y with label c
CountClass(labels, c) == Cardinality({i \in 1..Len(labels) : labels[i] = c})

\* sampling_strategy='auto': the majority class is the first class holding the
\* most rows; every other class present is resampled up to that count
MajorityClass(labels) ==
  IF CountClass(labels, 0) >= CountClass(labels, 1) THEN 0 ELSE 1

MinorityClass(labels) == 1 - MajorityClass(labels)

\* one sample short of the majority count
NSyntheticShort(labels) ==
  IF CountClass(labels, 0) = CountClass(labels, 1) THEN 0
  ELSE Abs(CountClass(labels, 0) - CountClass(labels, 1)) - 1

\* the number of samples to synthesize
NSynthetic(labels) ==
  CountClass(labels, MajorityClass(labels)) - CountClass(labels, MinorityClass(labels))

\* the NearestNeighbors(n_neighbors=k_neighbors + 1) query of the minority
\* class on itself needs that many rows to be fitted
NeighborsFail(n_samples_fit) == K_NEIGHBORS + 1 > n_samples_fit

\* smote.fit_resample raises: on a target with a single class; or, when there
\* is something to synthesize, on a minority class too small for the query
SmoteFails(labels) ==
  \/ CountClass(labels, 0) = 0
  \/ CountClass(labels, 1) = 0
  \/ /\ NSynthetic(labels) > 0
     /\ NeighborsFail(CountClass(labels, MinorityClass(labels)))

\* squared euclidean distance of two feature rows
Dist2(p, q) ==
  LET sq(x) == RMul(x, x)
      cols  == <<"Time", "Amount", "V", "Extra">>
  IN  RSum([k \in 1..Len(cols) |->
              IF cols[k] \in DOMAIN p
                THEN sq(RSub(p[cols[k]], q[cols[k]])) ELSE Zero])

\* kneighbors(X_class)[:, 1:]: for row p of the class, the position of its
\* c-th nearest other row (ties by position)
Neighbor(Xc, p, c) ==
  LET others == (1..Len(Xc)) \ {p}
      before(a, b) == \/ RLess(Dist2(Xc[p], Xc[a]), Dist2(Xc[p], Xc[b]))
                      \/ /\ Dist2(Xc[p], Xc[a]) = Dist2(Xc[p], Xc[b])
                         /\ a < b
      rank(q) == Cardinality({a \in others : before(a, q)})
  IN  CHOOSE q \in others : rank(q) = c - 1

\* x + step * (nn - x), column by column
Interpolate(x, nn, step) ==
  LET mix(a, b) == RAdd(a, RMul(step, RSub(b, a)))
  IN  [c \in DOMAIN x |-> IF c = "idx" THEN x.idx ELSE mix(x[c], nn[c])]

\* _make_samples: n draws of a (row, neighbour) pair, then n draws of a step
MakeSamples(Xc, n, s) ==
  LET st      == RngStates(s, 2 * n)
      indices == Randint(SubSeq(st, 1, n), Len(Xc) * K_NEIGHBORS)
      steps   == Uniform(SubSeq(st, n + 1, 2 * n))
  IN  [j \in 1..n |->
         LET row == indices[j] \div K_NEIGHBORS
             col == indices[j] % K_NEIGHBORS
         IN  Interpolate(Xc[row + 1], Xc[Neighbor(Xc, row + 1, col + 1)], steps[j])]

\* the frame rebuilt from the resampled array: a fresh RangeIndex
ResetIndex(Xs) == [i \in 1..Len(Xs) |-> [Xs[i] EXCEPT !.idx = i - 1]]

\* smote.fit_resample(X, y): the input rows, then the synthesized rows of the
\* minority class
SmoteX(Xf, labels, s) ==
  LET n  == NSynthetic(labels)
      Xc == KeepFrom(Xf, [i \in 1..Len(Xf) |-> labels[i] = MinorityClass(labels)], 1)
  IN  ResetIndex(Xf \o (IF n = 0 THEN <<>> ELSE MakeSamples(Xc, n, s)))

SmoteY(labels) ==
  labels \o [j \in 1..NSynthetic(labels) |-> MinorityClass(labels)]

\* ---------------------------------------------------- train_test_split
\* ceil(0.2 * n_samples)
NTestFifth(n) == (2 * n + 9) \div 10

\* ceil(test_size * n_samples)
NTest(n) == (TEST_SIZE_TENTHS * n + 9) \div 10

NTrain(n) == n - NTest(n)

\* the resulting train set would be empty
SplitFails(n) == NTrain(n) = 0

\* ind_test = permutation[:n_test]
IndTest(n, s) == SubSeq(Permutation(n, s), 1, NTest(n))

\* a train slice that starts one position early
IndTrainOverlap(n, s) == SubSeq(Permutation(n, s), NTest(n), NTest(n) + NTrain(n))

\* ind_train = permutation[n_test:(n_test + n_train)]
IndTrain(n, s) == SubSeq(Permutation(n, s), NTest(n) + 1, NTest(n) + NTrain(n))

\* frame.iloc[ind]
Take(frame, ind) == [i \in 1..Len(ind) |-> frame[ind[i] + 1]]

\* ---------------------------------------------------------- Model Bank
\* the estimator each variable of the notebook is constructed as
Constructor(var) ==
  CASE var = "classifier" -> <<"GaussianNB", "">>
    [] var = "dt"         -> <<"DecisionTreeClassifier", "max_features=8, max_depth=6">>
    [] var = "Rclf"       -> <<"RandomForestClassifier", "max_features=8, max_depth=6">>
    [] var = "lr"         -> <<"LogisticRegression", "C=100, max_iter=1000">>
    [] var = "knn"        -> <<"KNeighborsClassifier", "n_neighbors=7">>
    [] var = "xgb"        -> <<"XGBClassifier", "">>

\* what a fit may learn: the decision rule of the fitted estimator
Rules == {"zero", "sign"}

\* estimator.fit(X_train, y_train): the fitted estimator, with the index
\* labels of the rows it was fitted on
Fit(var, rule, Xtr) ==
  [cls |-> Constructor(var)[1], params |-> Constructor(var)[2], rule |-> rule,
   fit_idx |-> {Xtr[i].idx : i \in 1..Len(Xtr)}]

\* model.predict(X_test)
Predict(model, Xte) ==
  [i \in 1..Len(Xte) |->
     IF model.rule = "zero" THEN 0
     ELSE IF RLeq(<<1, 2>>, Xte[i].V) THEN 1 ELSE 0]

\* LogisticRegression.fit raises on a target with one class
LogisticFitFails(ytr) == CountClass(ytr, 0) = 0 \/ CountClass(ytr, 1) = 0

\* knn.score -> kneighbors raises unless n_neighbors <= n_samples_fit
KnnScoreFails(Xtr) == N_NEIGHBORS_KNN > Len(Xtr)

\* str(model): the class name, then the parameters in parentheses
Str(model) == <<model.cls, "(", model.params, ")">>

\* str(model).split("(")[0]
ModelKey(model) == Str(model)[1]

\* names = [...] (assigned, never read)
names == <<"Decision Tree", "Naive", "Random Forest", "KNN",
           "Logistic Regression", "XGboost">>

\* models = [classifier, dt, Rclf, lr, knn, xgb]
models == <<"classifier", "dt", "Rclf", "lr", "knn", "xgb">>

\* d[k] = v
DictSet(d, k, v) == [x \in (DOMAIN d) \cup {k} |-> IF x = k THEN v ELSE d[x]]

\* ----------------------------------------------------------- Evaluator
Count(S) == Cardinality(S)

TruePos(yt, yp, c)  == Count({i \in 1..Len(yt) : yt[i] = c /\ yp[i] = c})
FalsePos(yt, yp, c) == Count({i \in 1..Len(yt) : yt[i] # c /\ yp[i] = c})
FalseNeg(yt, yp, c) == Count({i \in 1..Len(yt) : yt[i] = c /\ yp[i] # c})

\* a ratio whose zero denominator yields 1 (zero_division=1)
RatioOne(n, d) == IF d = 0 THEN Int2Rat(1) ELSE Rat(n, d)

\* a ratio whose zero denominator yields 0 (zero_division='warn')
Ratio(n, d) == IF d = 0 THEN Zero ELSE Rat(n, d)

accuracy_score(yt, yp) ==
  Rat(Count({i \in 1..Len(yt) : yt[i] = yp[i]}), Len(yt))

\* precision of the positive class (pos_label=1, average='binary')
precision_score(yt, yp) ==
  Ratio(TruePos(yt, yp, 1), TruePos(yt, yp, 1) + FalsePos(yt, yp, 1))

\* recall of the positive class
recall_score(yt, yp) ==
  Ratio(TruePos(yt, yp, 1), TruePos(yt, yp, 1) + FalseNeg(yt, yp, 1))

\* f1_score(average='weighted'): the per-class F1 weighted by support
f1_weighted(yt, yp) ==
  LET f1(c) == Ratio(2 * TruePos(yt, yp, c),
                     2 * TruePos(yt, yp, c) + FalsePos(yt, yp, c) + FalseNeg(yt, yp, c))
      support(c) == Count({i \in 1..Len(yt) : yt[i] = c})
  IN  RDiv(RAdd(RMul(Int2Rat(support(0)), f1(0)), RMul(Int2Rat(support(1)), f1(1))),
           Int2Rat(Len(yt)))

\* the list with recall and precision in each other's place
ScoresSwapped(yt, preds) ==
  <<Round2(accuracy_score(yt, preds[1])),
    Round2(f1_weighted(yt, preds[1])),
    Round2(recall_score(yt, preds[1])),
    Round2(precision_score(yt, preds[1]))>>

\* the list stored per model: the four scores rounded to two decimals
\* (in hundredths), in this order
Scores(yt, preds) ==
  <<Round2(accuracy_score(yt, preds[1])),
    Round2(f1_weighted(yt, preds[1])),
    Round2(precision_score(yt, preds[1])),
    Round2(recall_score(yt, preds[1]))>>

\* index=[...] of results_df
MetricIndex == <<"Accuracy", "F-1 Score", "Precision Score", "Recall Score">>

\* pd.DataFrame(model_comparison, index=MetricIndex): one column per key, the
\* list's positions labelled by the index
DataFrame(comparison, index) ==
  [k \in DOMAIN comparison |->
     [l \in Range(index) |->
        comparison[k][CHOOSE p \in 1..Len(index) : index[p] = l]]]

\* line 567 holds a stray backtick: the cell is not valid Python
CrossValidationCellParses == FALSE

\* the data the cell's cross_val_score calls name: credit_df_copy, not X, y
CrossValidationData(df) == <<DropClass(df), Labels(df)>>

\* ---------------------------------------------------------------- state
VARIABLES
  pc,                \* the next cell to run, "failed" once a cell has raised
  raised,            \* <<cell, exception>> of the cell that raised, else <<>>
  bound,             \* the names the kernel has bound so far
  file,              \* ../input/creditcardfraud/creditcard.csv
  stream,            \* which stream RandomState(42) yields
  credit_df, credit_df_copy, columns, pca, transformer,
  X, y, X_train, X_test, y_train, y_test,
  estimators,        \* classifier, dt, Rclf, lr, knn, xgb: variable -> estimator
  results, model_comparison, results_df,
  cross_val          \* classifier_cr .. xgb_cr

vars == <<pc, raised, bound, file, stream, credit_df, credit_df_copy, columns,
          pca, transformer, X, y, X_train, X_test, y_train, y_test, estimators,
          results, model_comparison, results_df, cross_val>>

inputs   == <<file, stream>>
frames   == <<credit_df, credit_df_copy, columns, pca, transformer>>
balanced == <<X, y>>
split    == <<X_train, X_test, y_train, y_test>>
tables   == <<results, model_comparison, results_df, cross_val>>

Files ==
  {[exists |-> FALSE, header |-> {}, table |-> <<>>]}
    \cup {[exists |-> TRUE, header |-> h, table |-> t] :
             h \in Layouts, t \in InputTables}

Init ==
  /\ pc = "read_csv"
  /\ raised = <<>>
  /\ bound = {}
  /\ file \in Files
  /\ stream \in 0..MaxSeed
  /\ credit_df = <<>> /\ credit_df_copy = <<>> /\ columns = <<>>
  /\ pca = <<>> /\ transformer = <<>>
  /\ X = <<>> /\ y = <<>>
  /\ X_train = <<>> /\ X_test = <<>> /\ y_train = <<>> /\ y_test = <<>>
  /\ estimators = <<>>
  /\ results = <<>> /\ model_comparison = <<>> /\ results_df = <<>>
  /\ cross_val = <<>>

\* a cell raises: the run stops there
Raise(cell, exception, assigned) ==
  /\ pc' = "failed"
  /\ raised' = <<cell, exception>>
  /\ bound' = bound \cup assigned

\* a cell completes
Goto(next, assigned) ==
  /\ pc' = next
  /\ raised' = raised
  /\ bound' = bound \cup assigned

\* credit_df = pd.read_csv(...)
ReadCsv ==
  /\ pc = "read_csv"
  /\ IF ~file.exists
       THEN /\ Raise("read_csv", "FileNotFoundError", {})
            /\ UNCHANGED credit_df
       ELSE /\ credit_df' = read_csv(file.table, file.header)
            /\ Goto("eda", {"credit_df"})
  /\ UNCHANGED <<inputs, credit_df_copy, columns, pca, transformer, balanced,
                 split, estimators, tables>>

\* the exploration cells: info, describe, the histograms of Time and Amount,
\* the pie of Class.value_counts() with explode=[0, 0.1], the two histograms
\* of Time by Class; they read credit_df and assign nothing the run uses
Eda ==
  /\ pc = "eda"
  /\ LET header == IF Len(credit_df) = 0 THEN file.header
                   ELSE (DOMAIN credit_df[1]) \ {"idx"}
     IN  IF ~({"Time", "Amount"} \subseteq header)
           THEN Raise("eda", "KeyError", {})
         ELSE IF "Class" \notin header
           THEN Raise("eda", "AttributeError", {})
         ELSE IF Len(credit_df) = 0
           THEN Raise("eda", "TypeError", {})
         ELSE IF \E c \in 0..1 : \A i \in 1..Len(credit_df) : credit_df[i].Class = c
           THEN Raise("eda", "ValueError", {})
         ELSE Goto("copy", {})
  /\ UNCHANGED <<inputs, frames, balanced, split, estimators, tables>>

\* credit_df_copy = credit_df.copy()
CopyData ==
  /\ pc = "copy"
  /\ credit_df_copy' = credit_df
  /\ Goto("clean", {"credit_df_copy"})
  /\ UNCHANGED <<inputs, credit_df, columns, pca, transformer, balanced, split,
                 estimators, tables>>

\* the Cleaning Data cell: credit_df_copy.drop_duplicates(inplace=True)
CleanData ==
  /\ pc = "clean"
  /\ credit_df_copy' = drop_duplicates(credit_df_copy)
  /\ Goto("pca", {})
  /\ UNCHANGED <<inputs, credit_df, columns, pca, transformer, balanced, split,
                 estimators, tables>>

\* the Cleaning Data cell run once more on the frame it has cleaned
RerunCleanData ==
  /\ pc = "pca"
  /\ credit_df_copy' = drop_duplicates(credit_df_copy)
  /\ Goto("cleaned_again", {})
  /\ UNCHANGED <<inputs, credit_df, columns, pca, transformer, balanced, split,
                 estimators, tables>>

\* the PCA cell: columns is copied out of the frame, the projection is fitted
\* on it and its output written over the two columns of the frame
PcaCell ==
  /\ pc = "pca"
  /\ columns' = TimeAmount(credit_df_copy)
  /\ IF PcaFitFails(columns')
       THEN /\ Raise("pca", "ValueError", {"pca", "columns"})
            /\ UNCHANGED <<pca, credit_df_copy>>
       ELSE /\ pca' = PcaFit(columns')
            /\ credit_df_copy' =
                 SetTimeAmount(credit_df_copy, PcaTransform(pca', columns'))
            /\ Goto("scale", {"pca", "columns"})
  /\ UNCHANGED <<inputs, credit_df, transformer, balanced, split, estimators,
                 tables>>

\* the RobustScaler cell: fitted on columns, and columns transformed
ScaleCell ==
  /\ pc = "scale"
  /\ transformer' = RobustFit(columns)
  /\ credit_df_copy' =
       SetTimeAmount(credit_df_copy, RobustTransform(transformer', columns))
  /\ Goto("smote", {"transformer"})
  /\ UNCHANGED <<inputs, credit_df, columns, pca, balanced, split, estimators,
                 tables>>

\* the SMOTE cell: X and y are taken from the frame, then resampled
SmoteCell ==
  /\ pc = "smote"
  /\ LET X0 == DropClass(credit_df_copy)
         y0 == Labels(credit_df_copy)
     IN  IF SmoteFails(y0)
           THEN /\ X' = X0
                /\ y' = y0
                /\ Raise("smote", "ValueError", {"X", "y", "smote"})
           ELSE /\ X' = SmoteX(X0, y0, RandomState(stream))
                /\ y' = SmoteY(y0)
                /\ Goto("split", {"X", "y", "smote"})
  /\ UNCHANGED <<inputs, frames, split, estimators, tables>>

\* X_train, X_test, y_train, y_test = train_test_split(X, y, test_size=0.3,
\* random_state=42)
SplitCell ==
  /\ pc = "split"
  /\ LET n == Len(X)
         s == RandomState(stream)
     IN  IF SplitFails(n)
           THEN /\ Raise("split", "ValueError", {})
                /\ UNCHANGED split
           ELSE /\ X_train' = Take(X, IndTrain(n, s))
                /\ X_test'  = Take(X, IndTest(n, s))
                /\ y_train' = Take(y, IndTrain(n, s))
                /\ y_test'  = Take(y, IndTest(n, s))
                /\ Goto("naive_bayes", {"X_train", "X_test", "y_train", "y_test"})
  /\ UNCHANGED <<inputs, frames, balanced, estimators, tables>>

\* a fit cell whose failure is recorded and passed over: the next cell runs
FitCellCarriesOn(cell, var, next, fitFails, scoreFails) ==
  /\ pc = cell
  /\ \E rule \in Rules :
       IF fitFails
         THEN /\ pc' = next
              /\ raised' = <<cell, "ValueError">>
              /\ bound' = bound \cup {var}
              /\ UNCHANGED estimators
         ELSE /\ estimators' = DictSet(estimators, var, Fit(var, rule, X_train))
              /\ IF scoreFails
                   THEN Raise(cell, "ValueError", {var})
                   ELSE Goto(next, {var, var \o "_score"})
  /\ UNCHANGED <<inputs, frames, balanced, split, tables>>

\* a fit cell: var = Estimator(...); var.fit(X_train, y_train);
\* var_score = var.score(X_test, y_test).round(5)
FitCell(cell, var, next, fitFails, scoreFails) ==
  /\ pc = cell
  /\ \E rule \in Rules :
       IF fitFails
         THEN /\ Raise(cell, "ValueError", {var})
              /\ UNCHANGED estimators
         ELSE /\ estimators' = DictSet(estimators, var, Fit(var, rule, X_train))
              /\ IF scoreFails
                   THEN Raise(cell, "ValueError", {var})
                   ELSE Goto(next, {var, var \o "_score"})
  /\ UNCHANGED <<inputs, frames, balanced, split, tables>>

NaiveBayesCell == FitCell("naive_bayes", "classifier", "decision_tree", FALSE, FALSE)

DecisionTreeCell == FitCell("decision_tree", "dt", "random_forest", FALSE, FALSE)

RandomForestCell == FitCell("random_forest", "Rclf", "logistic", FALSE, FALSE)

LogisticRegressionCell ==
  FitCell("logistic", "lr", "k_nearest", LogisticFitFails(y_train), FALSE)

KNearestCell == FitCell("k_nearest", "knn", "xgboost", FALSE, KnnScoreFails(X_train))

XGBoostCell == FitCell("xgboost", "xgb", "predict", FALSE, FALSE)

RECURSIVE PredictAll(_, _, _, _)
\* for model in models: results[str(model).split("(")[0]] = [model.predict(X_test)]
PredictAll(d, ms, i, Xte) ==
  IF i > Len(ms) THEN d
  ELSE PredictAll(DictSet(d, ModelKey(estimators[ms[i]]),
                          <<Predict(estimators[ms[i]], Xte)>>),
                  ms, i + 1, Xte)

\* the Make Predictions cell
MakePredictions ==
  /\ pc = "predict"
  /\ model_comparison' = <<>>
  /\ results' = PredictAll(<<>>, models, 1, X_test)
  /\ Goto("scores", {"model_comparison", "names", "models", "results"})
  /\ UNCHANGED <<inputs, frames, balanced, split, estimators, results_df, cross_val>>

\* the metrics cell: for model, preds in results.items(): model_comparison[model] = [...]
FindScores ==
  /\ pc = "scores"
  /\ model_comparison' = [k \in DOMAIN results |-> Scores(y_test, results[k])]
  /\ Goto("results_df", {})
  /\ UNCHANGED <<inputs, frames, balanced, split, estimators, results, results_df,
                 cross_val>>

\* results_df = pd.DataFrame(model_comparison, index=[...])
MakeResultsDf ==
  /\ pc = "results_df"
  /\ results_df' = DataFrame(model_comparison, MetricIndex)
  /\ Goto("cross_validation", {"results_df"})
  /\ UNCHANGED <<inputs, frames, balanced, split, estimators, results,
                 model_comparison, cross_val>>

\* the Cross Validation Scores cell: it does not compile, so none of its six
\* assignments runs; the plot cell after it is never reached
CrossValidationCell ==
  /\ pc = "cross_validation"
  /\ IF CrossValidationCellParses
       THEN /\ cross_val' = [m \in Range(models) |->
                               [data |-> CrossValidationData(credit_df_copy),
                                cv |-> CV_FOLDS]]
            /\ Goto("cross_validated_scores", {m \o "_cr" : m \in Range(models)})
       ELSE /\ Raise("cross_validation", "SyntaxError", {})
            /\ UNCHANGED cross_val
  /\ UNCHANGED <<inputs, frames, balanced, split, estimators, results,
                 model_comparison, results_df>>

Next ==
  \/ ReadCsv
  \/ Eda
  \/ CopyData
  \/ CleanData
  \/ PcaCell
  \/ ScaleCell
  \/ SmoteCell
  \/ SplitCell
  \/ NaiveBayesCell
  \/ DecisionTreeCell
  \/ RandomForestCell
  \/ LogisticRegressionCell
  \/ KNearestCell
  \/ XGBoostCell
  \/ MakePredictions
  \/ FindScores
  \/ MakeResultsDf
  \/ CrossValidationCell

Spec == Init /\ [][Next]_vars

\* the run up to the Cleaner, and the Cleaner once more
NextRerun == ReadCsv \/ Eda \/ CopyData \/ CleanData \/ RerunCleanData

SpecRerun == Init /\ [][NextRerun]_vars

\* ------------------------------------------------- Evaluator on its own
\* A test set of pos fraud rows and neg non-fraud rows, in that order
TestRows(pos, neg) ==
  [i \in 1..(pos + neg) |->
     LET r == IF i <= pos THEN PoolRow(1, i) ELSE PoolRow(0, i - pos)
     IN  Row(i - 1, Int2Rat(r[1]), Int2Rat(r[2]), Int2Rat(r[3]), r[4])]

\* The state in which the Make Predictions cell starts: six fitted
\* estimators, each with a rule of its own, and a test set
InitEval ==
  /\ pc = "predict"
  /\ raised = <<>>
  /\ bound = {"X_test", "y_test"} \cup Range(models)
  /\ file = [exists |-> TRUE, table |-> <<>>]
  /\ stream = 0
  /\ credit_df = <<>> /\ credit_df_copy = <<>> /\ columns = <<>>
  /\ pca = <<>> /\ transformer = <<>>
  /\ X = <<>> /\ y = <<>>
  /\ X_train = <<>> /\ y_train = <<>>
  /\ \E pos \in 0..MaxPos, neg \in 0..MaxNeg :
       /\ pos + neg > 0
       /\ X_test = DropClass(TestRows(pos, neg))
       /\ y_test = Labels(TestRows(pos, neg))
  /\ \E rule \in [Range(models) -> Rules] :
       estimators = [v \in Range(models) |-> Fit(v, rule[v], <<>>)]
  /\ results = <<>> /\ model_comparison = <<>> /\ results_df = <<>>
  /\ cross_val = <<>>

NextEval ==
  \/ MakePredictions
  \/ FindScores
  \/ MakeResultsDf

SpecEval == InitEval /\ [][NextEval]_vars

\* ================================================================ claims

\* the class counts of a label column
Balanced(labels) == CountClass(labels, 0) = CountClass(labels, 1)

\* the index labels of a frame
Index(frame) == {frame[i].idx : i \in 1..Len(frame)}

\* the Feature Transformer has run: both of its cells have completed
TransformerHasRun == "transformer" \in bound

\* C1: after the PCA step and the scaling step, the time-offset and amount
\* columns of every row hold the scaler applied to that row's PCA-projected
\* values.
C1_ScalerReadsPcaOutput ==
  TransformerHasRun =>
    TimeAmount(credit_df_copy) = RobustTransform(transformer, PcaTransform(pca, columns))

\* the run is over: a cell has raised, or the last cell has completed
RunEnded == pc \in {"failed", "cross_validated_scores"}

\* C2: once the holdout table exists and the run is over, every model of the
\* roster has a 5-fold cross-validated accuracy computed on the Balancer's
\* output X, y, whose class counts are equal.
C2_CrossValidatedOnBalanced ==
  (RunEnded /\ "results_df" \in bound) =>
    \A m \in Range(models) :
      /\ m \in DOMAIN cross_val
      /\ cross_val[m].cv = 5
      /\ cross_val[m].data = <<X, y>>
      /\ Balanced(cross_val[m].data[2])

\* the Cleaner has just completed: credit_df_copy is its output, credit_df
\* its input
CleanerDone == pc = "pca"

\* C3: the Cleaner's output holds no two identical rows within the same
\* label partition, and no more rows than its input.
C3_CleanerDedupes ==
  CleanerDone =>
    /\ \A i, j \in 1..Len(credit_df_copy) :
         (i # j /\ credit_df_copy[i].Class = credit_df_copy[j].Class)
           => RowValues(credit_df_copy[i]) # RowValues(credit_df_copy[j])
    /\ Len(credit_df_copy) <= Len(credit_df)

\* C3's case: the input held duplicates, and the Cleaner removed them
C3_Witness ==
  /\ CleanerDone
  /\ Len(credit_df_copy) < Len(credit_df)
  /\ Len(credit_df_copy) >= 2

\* the Balancer has just completed: X, y are its output, credit_df_copy its
\* input
BalancerDone == pc = "split"

\* C4: whenever the Balancer completes, its output has as many rows of label
\* 0 as of label 1, and at least as many rows as its input.
C4_BalancerEqualizes ==
  BalancerDone =>
    /\ CountClass(y, 0) = CountClass(y, 1)
    /\ Len(X) = Len(y)
    /\ Len(X) >= Len(credit_df_copy)

\* C4's case: the Balancer had rows to synthesize
C4_Witness == BalancerDone /\ Len(X) > Len(credit_df_copy)

\* C5: the training set and the test set share no row, together they are the
\* balanced dataset, the test set holds ceil(0.3 n) of its n rows, and no
\* estimator was fitted on a row of the test set.
C5_SplitPartitions ==
  "X_test" \in bound =>
    /\ Index(X_train) \cap Index(X_test) = {}
    /\ Range(X_train) \cup Range(X_test) = Range(X)
    /\ Len(X_train) + Len(X_test) = Len(X)
    /\ Len(y_train) = Len(X_train) /\ Len(y_test) = Len(X_test)
    /\ 10 * Len(X_test) - 3 * Len(X) \in 0..9
    /\ \A v \in DOMAIN estimators : estimators[v].fit_idx \cap Index(X_test) = {}

\* C5's case: the split has run on a dataset with synthesized rows and all
\* six estimators are fitted
C5_Witness ==
  /\ pc = "predict"
  /\ DOMAIN estimators = Range(models)
  /\ Len(X) > Len(credit_df_copy)

\* the input file is the toy dataset: 10 non-fraud rows and fraud fraud rows,
\* all with distinct feature vectors
Toy(fraud) == file.exists /\ file.table = PoolTable(10, fraud, 0)

\* the Balancer's cell has been entered
BalancerEntered == "smote" \in bound

\* the Balancer's cell has raised
BalancerRaised == raised # <<>> /\ raised[1] = "smote"

\* C6: on 10 non-fraud and 2 fraud rows the Balancer completes with 10 rows
\* of each class (20 in total), and the 0.3 split of that yields 6 test rows
\* and 14 train rows.
C6_ToyScenario ==
  Toy(2) =>
    /\ BalancerEntered =>
         /\ ~BalancerRaised
         /\ CountClass(y, 0) = 10 /\ CountClass(y, 1) = 10 /\ Len(X) = 20
    /\ "X_test" \in bound => (Len(X_test) = 6 /\ Len(X_train) = 14)

\* C6 as amended: on 10 non-fraud and 2 fraud rows the Balancer raises and
\* nothing is split; on 10 non-fraud and 6 fraud rows it completes with 10
\* rows of each class (20 in total), and the 0.3 split of that yields 6 test
\* rows and 14 train rows.
C6_ToyScenarioAmended ==
  /\ (Toy(2) /\ BalancerEntered) =>
       /\ raised = <<"smote", "ValueError">>
       /\ ~Balanced(y)
       /\ "X_test" \notin bound
  /\ (Toy(6) /\ BalancerEntered) =>
       /\ ~BalancerRaised
       /\ CountClass(y, 0) = 10 /\ CountClass(y, 1) = 10 /\ Len(X) = 20
  /\ (Toy(6) /\ BalancerEntered /\ pc # "split") =>
       (Len(X_test) = 6 /\ Len(X_train) = 14)

\* C6's case: the toy dataset with 6 fraud rows has been balanced and split
C6_Witness == Toy(6) /\ pc = "naive_bayes"

\* one class is strictly the smaller one and holds fewer than 5 rows
SmallMinority(labels) ==
  \E c \in {0, 1} :
    /\ CountClass(labels, c) < CountClass(labels, 1 - c)
    /\ CountClass(labels, c) < 5

\* C7: whenever the minority class of the Balancer's input has fewer than 5
\* rows the Balancer raises: X, y are not balanced, and the Splitter, the
\* Model Bank and the Evaluator never run.
C7_BalancerRaises ==
  (BalancerEntered /\ SmallMinority(Labels(credit_df_copy))) =>
    /\ pc = "failed"
    /\ raised = <<"smote", "ValueError">>
    /\ ~Balanced(y)
    /\ bound \cap {"X_train", "X_test", "y_train", "y_test", "results",
                   "model_comparison", "results_df"} = {}
    /\ DOMAIN estimators = {}

\* C7's case: the Balancer was entered with a minority class of 2 to 4 rows
C7_Witness ==
  /\ BalancerEntered
  /\ \E c \in {0, 1} :
       /\ CountClass(Labels(credit_df_copy), c) \in 2..4
       /\ CountClass(Labels(credit_df_copy), 1 - c) > 4

\* a library call has raised
LibraryCallFailed ==
  /\ raised # <<>>
  /\ raised[2] \in {"FileNotFoundError", "KeyError", "AttributeError",
                    "TypeError", "ValueError"}

\* the class names of the roster
RosterKeys == {Constructor(v)[1] : v \in Range(models)}

\* C8: when no library call fails, the run ends with both score tables, the
\* holdout table and the cross-validated means, each covering the six models.
C8_BothTables ==
  (RunEnded /\ ~LibraryCallFailed) =>
    /\ DOMAIN results_df = RosterKeys
    /\ DOMAIN cross_val = Range(models)

\* the four scores of an estimator's predictions on the test set
Accuracy(v)  == Round2(accuracy_score(y_test, Predict(estimators[v], X_test)))
F1(v)        == Round2(f1_weighted(y_test, Predict(estimators[v], X_test)))
Precision(v) == Round2(precision_score(y_test, Predict(estimators[v], X_test)))
Recall(v)    == Round2(recall_score(y_test, Predict(estimators[v], X_test)))

\* C9: the holdout table has one entry per model of the roster, six in all,
\* each keyed by the class name of the estimator whose predictions produced
\* it, holding accuracy, weighted F1, precision and recall, in this order, of
\* that estimator's predictions on the test set.
C9_HoldoutTable ==
  "results_df" \in bound =>
    /\ Cardinality(DOMAIN results_df) = 6
    /\ DOMAIN results_df = DOMAIN model_comparison
    /\ \A v \in Range(models) :
         LET key == Constructor(v)[1]
         IN  /\ key \in DOMAIN results_df
             /\ model_comparison[key] = <<Accuracy(v), F1(v), Precision(v), Recall(v)>>
             /\ results_df[key]["Accuracy"] = Accuracy(v)
             /\ results_df[key]["F-1 Score"] = F1(v)
             /\ results_df[key]["Precision Score"] = Precision(v)
             /\ results_df[key]["Recall Score"] = Recall(v)

\* C9's case: the table is built from estimators that disagree, on a test
\* set where precision and recall differ
C9_Witness ==
  /\ "results_df" \in bound
  /\ \E v, w \in Range(models) : Accuracy(v) # Accuracy(w)
  /\ \E v \in Range(models) : Precision(v) # Recall(v)

\* the test set holds 3 positive and 7 negative true labels
ThreeOfTen == CountClass(y_test, 1) = 3 /\ CountClass(y_test, 0) = 7

\* C10: for an estimator that always predicts 0 on a test set of 3 positive
\* and 7 negative labels the Evaluator does not fail, and reports precision 0
\* and recall 0.
C10_AllZeroPredictor ==
  ThreeOfTen =>
    /\ pc # "failed"
    /\ pc \in {"results_df", "cross_validation"} =>
         \A v \in Range(models) :
           estimators[v].rule = "zero" =>
             /\ model_comparison[Constructor(v)[1]][3] = 0
             /\ model_comparison[Constructor(v)[1]][4] = 0
    /\ pc = "cross_validation" =>
         \A v \in Range(models) :
           estimators[v].rule = "zero" =>
             /\ results_df[Constructor(v)[1]]["Precision Score"] = 0
             /\ results_df[Constructor(v)[1]]["Recall Score"] = 0

\* C10's case: the scores of an always-0 estimator are in the table
C10_Witness ==
  /\ ThreeOfTen
  /\ pc = "cross_validation"
  /\ \E v \in Range(models) : estimators[v].rule = "zero"

\* the fit cells, in the order they run, and the variable each assigns
FitCells == <<"naive_bayes", "decision_tree", "random_forest", "logistic",
              "k_nearest", "xgboost">>

\* a fit cell has raised
FitCellRaised == raised # <<>> /\ raised[1] \in Range(FitCells)

\* C11: if the fit of a model fails the run stops there: no model later in
\* the roster is trained, the Evaluator never runs, and no score table is
\* produced.
C11_FitFailureAborts ==
  FitCellRaised =>
    /\ pc = "failed"
    /\ \A k \in 1..Len(FitCells) :
         raised[1] = FitCells[k] =>
           /\ DOMAIN estimators \subseteq {models[j] : j \in 1..k}
           /\ bound \cap {models[j] : j \in (k + 1)..Len(models)} = {}
    /\ bound \cap {"results", "model_comparison", "results_df"} = {}
    /\ DOMAIN results = {} /\ DOMAIN model_comparison = {}
    /\ DOMAIN results_df = {} /\ DOMAIN cross_val = {}

\* C11's case: LogisticRegression.fit has raised after three estimators were
\* fitted
C11_Witness ==
  /\ raised = <<"logistic", "ValueError">>
  /\ DOMAIN estimators = {"classifier", "dt", "Rclf"}

\* the frame's rows all carry the columns of the header, and the index label
HasColumns(df, header) ==
  \A i \in 1..Len(df) : DOMAIN df[i] = header \cup {"idx"}

C13_CleanerIdempotent ==
  [][RerunCleanData => credit_df_copy' = credit_df_copy]_vars

\* C13's case: the Cleaner removed rows on its first run and has run again
C13_Witness ==
  /\ pc = "cleaned_again"
  /\ Len(credit_df_copy) < Len(credit_df)
  /\ Len(credit_df_copy) >= 2

\* C14: the test set the splitting step produces holds 0.2% of the rows of
\* the dataset being split (rounded up to a whole row, as train_test_split
\* rounds a fraction).
C14_TestSetIsTwoPerMille ==
  "X_test" \in bound =>
    /\ 1000 * Len(X_test) >= 2 * Len(X)
    /\ 1000 * (Len(X_test) - 1) < 2 * Len(X)

\* two rows with the same columns that agree outside the columns named
SameExcept(r, q, cols) ==
  /\ DOMAIN r = DOMAIN q
  /\ \A c \in (DOMAIN r) \ cols : r[c] = q[c]

\* frame a is frame b with some rows taken out: the rows left are rows of b,
\* whole, in b's order
RowsRemoved(a, b) == a = Mask(b, [j \in 1..Len(b) |-> b[j] \in Range(a)])

\* what one step may do to the rows it is given
FrameEffect ==
  /\ credit_df' # credit_df => pc = "read_csv"
  /\ credit_df_copy' # credit_df_copy =>
       \/ pc = "copy" /\ credit_df_copy' = credit_df
       \/ pc = "clean" /\ RowsRemoved(credit_df_copy', credit_df_copy)
       \/ /\ pc \in {"pca", "scale"}
          /\ Len(credit_df_copy') = Len(credit_df_copy)
          /\ \A i \in 1..Len(credit_df_copy) :
               SameExcept(credit_df_copy'[i], credit_df_copy[i], {"Time", "Amount"})
  /\ (X' # X \/ y' # y) =>
       /\ pc = "smote"
       /\ Len(X') >= Len(credit_df_copy) /\ Len(y') = Len(X')
       /\ \A i \in 1..Len(credit_df_copy) :
            /\ SameExcept(X'[i], Features(credit_df_copy[i]), {"idx"})
            /\ y'[i] = credit_df_copy[i].Class
  /\ (X_train' # X_train \/ X_test' # X_test
        \/ y_train' # y_train \/ y_test' # y_test) =>
       /\ pc = "split"
       /\ \A i \in 1..Len(X_train') :
            /\ X_train'[i] = X[X_train'[i].idx + 1]
            /\ y_train'[i] = y[X_train'[i].idx + 1]
       /\ \A i \in 1..Len(X_test') :
            /\ X_test'[i] = X[X_test'[i].idx + 1]
            /\ y_test'[i] = y[X_test'[i].idx + 1]

\* C15: the fields of an existing row are changed only by the Feature
\* Transformer, and only in Time and Amount: it leaves the other columns, the
\* label and the number and order of rows as they are; the Cleaner, the
\* Balancer and the Splitter only remove, append or partition rows, and no
\* other step touches a frame.
C15_FrameEffects == [][FrameEffect]_vars

\* C15's case: the Cleaner has removed rows, the Transformer has rewritten
\* Time or Amount, the Balancer has appended rows and the Splitter has run
C15_Witness ==
  /\ pc = "naive_bayes"
  /\ Len(credit_df_copy) < Len(credit_df)
  /\ \E i \in 1..Len(credit_df_copy) :
       credit_df_copy[i].Time # credit_df[credit_df_copy[i].idx + 1].Time
  /\ Len(X) > Len(credit_df_copy)
  /\ Len(X_test) > 0 /\ Len(X_train) > 0

====
